------------------------------ MODULE Spec2Model ------------------------------
(***************************************************************************)
(* A model of the HR tool: the business rules and the record store of      *)
(* utils.py and the add-employee form of app.py.                           *)
(*                                                                         *)
(*   SpecVac    compute_vacation_total as a function of its argument       *)
(*   SpecSen    infer_seniority as a function of age and hire date         *)
(*   SpecStore  load_data / append_row called one after the other          *)
(*   SpecRace   two append_row calls running concurrently on one file      *)
(*   SpecApp    the Streamlit script: render, form submission, rerun       *)
(*                                                                         *)
(* Numbers that Python holds as floats are held here as exact rationals    *)
(* [num, den]; text that the code inspects character by character is a     *)
(* sequence of one-character strings.                                      *)
(***************************************************************************)
EXTENDS Integers, Sequences, FiniteSets, TLC

VARIABLES
    vacA, vacB,         \* two arguments handed to compute_vacation_total
    vacResA, vacResB,   \* what the two calls returned
    senAge, senHire,    \* the arguments handed to infer_seniority
    senRes,             \* what infer_seniority returned
    file,               \* data/swiss_hr_dataset.csv
    lenientDates,       \* whether the installed pandas parses a date column of mixed formats
    lastCall, prevCall, \* the last two calls made to the record store, with their outcomes
    pc, procRow, procDf, \* each concurrent append_row call: its position, its row_dict, its df
    cache,              \* what st.cache_data holds for get_data
    page,               \* what the last run of the script shows: an error, or the table df
    form,               \* the add-employee form as rendered, with the max of its last widget
    message,            \* the message the last submission ended with
    lastForm,           \* the values of the last submission
    runKind,            \* what started the last run of the script
    appended            \* the rows handed to append_row that it wrote

vacVars == <<vacA, vacB, vacResA, vacResB>>
senVars == <<senAge, senHire, senRes>>
fileVars == <<file, lenientDates>>
storeVars == <<lastCall, prevCall>>
raceVars == <<pc, procRow, procDf>>
appVars == <<cache, page, form, message, lastForm, runKind, appended>>
vars == <<vacVars, senVars, fileVars, storeVars, raceVars, appVars>>

\* A call that has not been made, and the ways a call ends.
NotCalled == [state |-> "not called"]
Returned(v) == [state |-> "returned", val |-> v]
Raised(e) == [state |-> "raised", err |-> e]

-------------------------------------------------------------------------------
(* Text and numbers *)

DigitChars == <<"0", "1", "2", "3", "4", "5", "6", "7", "8", "9">>

IsDigit(c) == \E d \in 1..10 : DigitChars[d] = c

DigitVal(c) == (CHOOSE d \in 1..10 : DigitChars[d] = c) - 1

\* str(n) for a natural number n.
RECURSIVE IntToStr(_)
IntToStr(n) ==
    IF n < 10 THEN <<DigitChars[n + 1]>>
    ELSE Append(IntToStr(n \div 10), DigitChars[(n % 10) + 1])

RECURSIVE DigitsToNat(_)
DigitsToNat(s) ==
    IF s = <<>> THEN 0
    ELSE 10 * DigitsToNat(SubSeq(s, 1, Len(s) - 1)) + DigitVal(s[Len(s)])

\* s.strip("%"): every leading and every trailing "%" removed.
RECURSIVE StripPercent(_)
StripPercent(s) ==
    IF s = <<>> THEN s
    ELSE IF s[1] = "%" THEN StripPercent(Tail(s))
    ELSE IF s[Len(s)] = "%" THEN StripPercent(SubSeq(s, 1, Len(s) - 1))
    ELSE s

\* s.endswith("%")
EndsWithPercent(s) == Len(s) > 0 /\ s[Len(s)] = "%"

Rat(n, d) == [num |-> n, den |-> d]

\* float(x) of a text: its digits as a number, ValueError for anything else.
FloatOfText(s) ==
    IF Len(s) > 0 /\ \A i \in 1..Len(s) : IsDigit(s[i])
    THEN Returned(Rat(DigitsToNat(s), 1))
    ELSE Raised("ValueError")

\* round(n / d) of Python 3: to the nearest integer, a tie to the even one.
RoundHalfEven(n, d) ==
    LET q == n \div d
        r == n % d
    IN  IF 2 * r > d \/ (2 * r = d /\ q % 2 = 1) THEN q + 1 ELSE q

-------------------------------------------------------------------------------
(* utils.py: compute_vacation_total *)

PercentDivisor == 100
MaxVacationDays == 25

\* An argument: a text, a whole number, or a float (a number of hundredths).
StrArg(s) == [kind |-> "str", text |-> s]
IntArg(n) == [kind |-> "int", val |-> Rat(n, 1)]
FloatArg(n) == [kind |-> "float", val |-> Rat(n, PercentDivisor)]

\* workload_pct > 1, for a number
GreaterThanOne(w) == w.val.num > w.val.den

\* float(workload_pct)
FloatOf(w) == IF w.kind = "str" THEN FloatOfText(w.text) ELSE Returned(w.val)

DivideBy100(f) ==
    IF f.state = "raised" THEN f
    ELSE Returned(Rat(f.val.num, f.val.den * PercentDivisor))

\* A faulty variant of the ladder: `>= 1` where the code has `> 1`.
NormalizeWorkloadGe(w) ==
    IF w.kind = "str" /\ EndsWithPercent(w.text)
    THEN DivideBy100(FloatOfText(StripPercent(w.text)))
    ELSE IF w.kind \in {"int", "float"} /\ w.val.num >= w.val.den
    THEN DivideBy100(FloatOf(w))
    ELSE FloatOf(w)

\* The "normalize to fraction" ladder.
NormalizeWorkload(w) ==
    IF w.kind = "str" /\ EndsWithPercent(w.text)
    THEN DivideBy100(FloatOfText(StripPercent(w.text)))
    ELSE IF w.kind \in {"int", "float"} /\ GreaterThanOne(w)
    THEN DivideBy100(FloatOf(w))
    ELSE FloatOf(w)

\* A faulty variant: int(25 * frac), without round().
ComputeVacationTruncating(w) ==
    LET frac == NormalizeWorkload(w)
    IN  IF frac.state = "raised" THEN frac
        ELSE Returned((MaxVacationDays * frac.val.num) \div frac.val.den)

compute_vacation_total(w) ==
    LET frac == NormalizeWorkload(w)
    IN  IF frac.state = "raised" THEN frac
        ELSE Returned(RoundHalfEven(MaxVacationDays * frac.val.num, frac.val.den))

MaxPct == 104

PercentText(p) == Append(IntToStr(p), "%")

MalformedTexts == {<<>>, <<"x">>, <<"%">>, <<"8", "0">>, <<"%", "5", "%">>}

WorkloadArgs ==
    {StrArg(PercentText(p)) : p \in 0..MaxPct}
        \cup {StrArg(s) : s \in MalformedTexts}
        \cup {IntArg(p) : p \in 0..MaxPct}
        \cup {FloatArg(p) : p \in 0..MaxPct}

ComputeVacation ==
    /\ vacResA = NotCalled
    /\ vacResA' = compute_vacation_total(vacA)
    /\ vacResB' = compute_vacation_total(vacB)
    /\ UNCHANGED <<vacA, vacB>>

-------------------------------------------------------------------------------
(* utils.py: infer_seniority *)

\* 365.25 days, in quarters of a day.
QuarterDaysPerYear == 1461

\* A hire date argument: None, a date (as the number of whole days from it to
\* today, negative for a date to come), or a value that is no date at all.
NoHireDate == [kind |-> "none"]
HireDateAgo(d) == [kind |-> "date", daysAgo |-> d]
MalformedHireDate == [kind |-> "malformed"]

\* (pd.to_datetime("today") - pd.to_datetime(hire_date)).days / 365.25
TenureOf(hire) ==
    IF hire.kind = "malformed" THEN Raised("ValueError")
    ELSE Returned(Rat(4 * hire.daysAgo, QuarterDaysPerYear))

\* A faulty variant: the tenure computed without the try / except.
YearsAtCompanyNoCatch(hire) ==
    IF hire.kind = "none" THEN Returned(Rat(0, 1)) ELSE TenureOf(hire)

\* years_at_company: the if / try / except of the function's first lines.
YearsAtCompany(hire) ==
    IF hire.kind # "none"
    THEN LET t == TenureOf(hire)
         IN  IF t.state = "raised" THEN Returned(Rat(0, 1)) ELSE t
    ELSE Returned(Rat(0, 1))

\* r < k and r >= k for a rational r and a whole number k
RatLt(r, k) == r.num < k * r.den
RatGe(r, k) == r.num >= k * r.den

\* A faulty variant: `age <= 28` in the first rule.
SeniorityLadderLe(age, years) ==
    IF age <= 28 /\ RatLt(years, 3) THEN "Junior"
    ELSE IF age < 35 /\ RatLt(years, 6) THEN "Mid"
    ELSE IF age < 45 /\ RatLt(years, 12) THEN "Senior"
    ELSE IF age < 60 /\ RatGe(years, 8) THEN "Manager"
    ELSE "Director"

SeniorityLadder(age, years) ==
    IF age < 28 /\ RatLt(years, 3) THEN "Junior"
    ELSE IF age < 35 /\ RatLt(years, 6) THEN "Mid"
    ELSE IF age < 45 /\ RatLt(years, 12) THEN "Senior"
    ELSE IF age < 60 /\ RatGe(years, 8) THEN "Manager"
    ELSE "Director"

infer_seniority(age, hire) ==
    LET y == YearsAtCompany(hire)
    IN  IF y.state = "raised" THEN y
        ELSE Returned(SeniorityLadder(age, y.val))

\* The ages the form lets through.
MinAge == 16
MaxAge == 100

\* Hire dates: whole years back, plus a few days (the leap days and a little
\* more), so that both sides of every tenure threshold occur.
MaxYears == 13
MaxExtraDays == 4

HireArgs ==
    {NoHireDate, MalformedHireDate}
        \cup {HireDateAgo(365 * y + k) : y \in (-1)..MaxYears, k \in 0..MaxExtraDays}

InferSeniority ==
    /\ senRes = NotCalled
    /\ senRes' = infer_seniority(senAge, senHire)
    /\ UNCHANGED <<senAge, senHire>>

-------------------------------------------------------------------------------
(* utils.py: the record store *)

(***************************************************************************)
(* A row_dict holds Python values: its names are strings, its hire date a  *)
(* date (a day number, today being day 0) or a value that is no date.  A   *)
(* row of a DataFrame holds a text or NaN in a text column, a whole number *)
(* in a number column and, in the Hire Date column, a Timestamp, a date or *)
(* a text.  A row of the file holds texts: a name as it stands, a number   *)
(* as its digits, a date as "YYYY-MM-DD" (format "date") or as             *)
(* "YYYY-MM-DD 00:00:00" (format "datetime").  The columns Residence       *)
(* (Canton) and Department are texts like the names and are left out.      *)
(***************************************************************************)

Text(s) == [kind |-> "text", s |-> s]
NaN == [kind |-> "nan"]

DateValue(d) == [kind |-> "date", day |-> d]
Timestamp(d) == [kind |-> "Timestamp", day |-> d]
DateText(d, f) == [kind |-> "str", day |-> d, fmt |-> f]
MalformedDate == [kind |-> "malformed"]

\* The texts read_csv takes for a missing value (keep_default_na).
NaTokens ==
    {"", "#N/A", "#N/A N/A", "#NA", "-1.#IND", "-1.#QNAN", "-NaN", "-nan",
     "1.#IND", "1.#QNAN", "<NA>", "N/A", "NA", "NULL", "NaN", "None", "n/a",
     "nan", "null"}

MissingFile == [state |-> "missing"]
UnreadableFile == [state |-> "unreadable"]
FileOf(rows) == [state |-> "present", rows |-> rows]

\* to_csv of one cell of a text column, and read_csv of it.
WriteText(v) == IF v.kind = "nan" THEN "" ELSE v.s
ReadText(c) == IF c \in NaTokens THEN NaN ELSE Text(c)

\* to_csv of one cell of the Hire Date column, which concat has made a column
\* of objects: str() of a Timestamp carries the time of day, str() of a date
\* does not, a text is written as it stands.
WriteDate(v) ==
    CASE v.kind = "Timestamp" -> [day |-> v.day, fmt |-> "datetime"]
      [] v.kind = "date" -> [day |-> v.day, fmt |-> "date"]
      [] v.kind = "str" -> [day |-> v.day, fmt |-> v.fmt]

\* DataFrame.to_csv of one row.
WriteRow(r) ==
    [first |-> WriteText(r.first), last |-> WriteText(r.last),
     age |-> IntToStr(r.age), seniority |-> WriteText(r.seniority),
     workload |-> r.workload, vtotal |-> IntToStr(r.vtotal),
     vtaken |-> IntToStr(r.vtaken), hire |-> WriteDate(r.hire)]

\* parse_dates=["Hire Date"]: the column becomes Timestamps when its cells
\* share one format; when they do not, an older pandas parses each cell on its
\* own and a newer one leaves the column as the texts it read.
DatesParsed(rows, lenient) ==
    lenient \/ \A i, j \in 1..Len(rows) : rows[i].hire.fmt = rows[j].hire.fmt

ReadDate(c, parsed) == IF parsed THEN Timestamp(c.day) ELSE DateText(c.day, c.fmt)

\* pd.read_csv of one row.
ReadRow(c, parsed) ==
    [first |-> ReadText(c.first), last |-> ReadText(c.last),
     age |-> DigitsToNat(c.age), seniority |-> ReadText(c.seniority),
     workload |-> c.workload, vtotal |-> DigitsToNat(c.vtotal),
     vtaken |-> DigitsToNat(c.vtaken), hire |-> ReadDate(c.hire, parsed)]

ReadRows(rows, lenient) ==
    [i \in 1..Len(rows) |-> ReadRow(rows[i], DatesParsed(rows, lenient))]

WriteRows(df) == [i \in 1..Len(df) |-> WriteRow(df[i])]

\* A faulty variant: an empty table for a file that cannot be read.
LoadDataOrEmpty(f, lenient) ==
    IF f.state = "present" THEN Returned(ReadRows(f.rows, lenient)) ELSE Returned(<<>>)

load_data(f, lenient) ==
    CASE f.state = "missing" -> Raised("FileNotFoundError")
      [] f.state = "unreadable" -> Raised("PermissionError")
      [] f.state = "present" -> Returned(ReadRows(f.rows, lenient))

save_data(df) == FileOf(WriteRows(df))

\* new_df: pd.DataFrame([row_dict]) with its Hire Date made a date.
NewDf(d) ==
    IF d.hire.kind = "malformed" THEN Raised("ValueError")
    ELSE Returned([first |-> Text(d.first), last |-> Text(d.last), age |-> d.age,
                   seniority |-> Text(d.seniority), workload |-> d.workload,
                   vtotal |-> d.vtotal, vtaken |-> d.vtaken,
                   hire |-> DateValue(d.hire.day)])

\* A faulty variant: the new row alone, the rows read dropped.
ConcatNewOnly(df, new) == <<new>>

\* pd.concat([df, new_df], ignore_index=True)
Concat(df, new) == Append(df, new)

\* append_row(row_dict) on the file f: what it returns or raises, the df it
\* read, and the file it leaves.
append_row(d, f, lenient) ==
    LET df == load_data(f, lenient)
        new == NewDf(d)
    IN  IF df.state = "raised" THEN [outcome |-> df, df |-> <<>>, file |-> f]
        ELSE IF new.state = "raised" THEN [outcome |-> new, df |-> df.val, file |-> f]
        ELSE [outcome |-> Returned("None"), df |-> df.val,
              file |-> save_data(Concat(df.val, new.val))]

\* The rows the model draws on.
BaseDict ==
    [first |-> "Eva", last |-> "Roth", age |-> 41, seniority |-> "Senior",
     workload |-> PercentText(100), vtotal |-> 25, vtaken |-> 3,
     hire |-> DateValue(0)]

\* The file as the exporter left it: every date as "YYYY-MM-DD".
ExportedRow == WriteRow(NewDf(BaseDict).val)

InitialFiles == {MissingFile, UnreadableFile, FileOf(<<>>), FileOf(<<ExportedRow>>)}

MaxStoreRows == 3

StoreDicts ==
    {[BaseDict EXCEPT !.first = f, !.hire = h] :
        f \in {"Ann", "NA"}, h \in {DateValue(1), DateValue(2), MalformedDate}}

NoCall == [op |-> "none"]

RowCount(f) == IF f.state = "present" THEN Len(f.rows) ELSE 0

CallLoadData ==
    /\ lastCall' = [op |-> "load", outcome |-> load_data(file, lenientDates)]
    /\ prevCall' = lastCall
    /\ UNCHANGED fileVars

CallAppendRow ==
    \E d \in StoreDicts :
        LET a == append_row(d, file, lenientDates)
        IN  /\ RowCount(file) < MaxStoreRows
            /\ file' = a.file
            /\ lastCall' = [op |-> "append", row |-> d, df |-> a.df, outcome |-> a.outcome]
            /\ prevCall' = lastCall
            /\ UNCHANGED lenientDates

-------------------------------------------------------------------------------
(* Two append_row calls at once.  load_data and save_data are each taken as *)
(* one step: a call reads the whole file, then rewrites the whole file.     *)

Procs == {"A", "B"}

RaceDicts == {[BaseDict EXCEPT !.first = f] : f \in {"Ann", "Bea", "Cy"}}

\* df = load_data()
RaceLoad(p) ==
    /\ pc[p] = "start"
    /\ LET df == load_data(file, lenientDates)
       IN  IF df.state = "raised"
           THEN pc' = [pc EXCEPT ![p] = "raised"] /\ UNCHANGED procDf
           ELSE pc' = [pc EXCEPT ![p] = "loaded"] /\ procDf' = [procDf EXCEPT ![p] = df.val]
    /\ UNCHANGED <<fileVars, procRow>>

\* new_df, concat, save_data(df)
RaceSave(p) ==
    /\ pc[p] = "loaded"
    /\ file' = save_data(Concat(procDf[p], NewDf(procRow[p]).val))
    /\ pc' = [pc EXCEPT ![p] = "returned"]
    /\ UNCHANGED <<lenientDates, procRow, procDf>>

-------------------------------------------------------------------------------
(* app.py: the script, run from the top at every interaction *)

\* @st.cache_data get_data(): the cached value when there is one, load_data()
\* otherwise; a value returned is kept, an exception is not.
get_data(c, f, lenient) == IF c.state = "returned" THEN c ELSE load_data(f, lenient)

Cached(c, f, lenient) ==
    LET df == get_data(c, f, lenient)
    IN  IF df.state = "returned" THEN df ELSE c

\* The script down to the form: df = get_data(), then the filters, where
\* int(df["Age"].min()) raises on a table without rows.
ScriptHead(c, f, lenient) ==
    LET df == get_data(c, f, lenient)
    IN  IF df.state = "raised" THEN df
        ELSE IF df.val = <<>> THEN Raised("ValueError")
        ELSE df

PageOf(head) ==
    IF head.state = "raised" THEN [state |-> "error", err |-> head.err]
    ELSE [state |-> "shown", df |-> head.val]

NoForm == [shown |-> FALSE]
FormWith(m) == [shown |-> TRUE, takenMax |-> m]

WorkloadOptions == {PercentText(p) : p \in {60, 70, 80, 90, 100}}
DefaultWorkload == PercentText(100)
AutoSuggest == "Auto-suggest"

\* vacation_total = compute_vacation_total(workload)
VacationTotal(workload) == compute_vacation_total(StrArg(workload)).val

\* A faulty variant: the value entered, whatever widget it was entered in.
NumberInputKeepsValue(entered, renderedMax, max) == entered

\* st.number_input("Vacation days taken", min_value=0, max_value=max, value=0)
\* in the run of a submission: the widget is identified by its arguments, so
\* the value entered in a widget rendered with another max_value is not this
\* widget's, which returns its default.
NumberInputValue(entered, renderedMax, max) == IF max = renderedMax THEN entered ELSE 0

\* A faulty variant: `and` where the code has `or`.
NamesMissingBoth(first, last) == first = "" /\ last = ""

\* not first_name or not last_name
NamesMissing(first, last) == first = "" \/ last = ""

\* The seniority written: the level chosen, or infer_seniority(age, hire_date).
SeniorityOf(choice, age, hireDay) ==
    IF choice = AutoSuggest THEN infer_seniority(age, HireDateAgo(-hireDay)).val
    ELSE choice

NewRow(f, taken) ==
    [first |-> f.first, last |-> f.last, age |-> f.age,
     seniority |-> SeniorityOf(f.seniority, f.age, f.hireDay),
     workload |-> f.workload, vtotal |-> VacationTotal(f.workload),
     vtaken |-> taken, hire |-> DateValue(f.hireDay)]

MaxAppRows == 2

\* What a user may submit: names (one of them left empty, or neither), a
\* workload, a seniority choice, and a number of days taken that the widget as
\* rendered lets through.
FormNames == {<<"Ann", "Lee">>, <<"", "Lee">>, <<"Ann", "">>}

FormInputs(takenMax) ==
    {[first |-> n[1], last |-> n[2], age |-> 50, workload |-> w, seniority |-> s,
      hireDay |-> -3287, entered |-> t] :
        n \in FormNames, w \in WorkloadOptions, s \in {AutoSuggest, "Mid"},
        t \in {0, takenMax}}

\* A run of the script with nothing submitted: the form shows its defaults.
PlainRun(kind) ==
    LET head == ScriptHead(cache, file, lenientDates)
    IN  /\ cache' = IF head.state = "returned" \/ head.err = "ValueError"
                    THEN get_data(cache, file, lenientDates) ELSE cache
        /\ page' = PageOf(head)
        /\ form' = IF head.state = "returned" THEN FormWith(VacationTotal(DefaultWorkload))
                   ELSE NoForm
        /\ message' = "none"
        /\ runKind' = kind
        /\ UNCHANGED <<fileVars, lastForm, appended>>

RerunPending == runKind = "submit" /\ message = "added"

\* The user opens the page, or touches a widget outside the form.
Render == ~RerunPending /\ PlainRun("render")

\* st.experimental_rerun() after a row was added.
Rerun == RerunPending /\ PlainRun("rerun")

\* The user presses "Add employee": the script runs with the form's values.
Submit ==
    /\ form.shown
    /\ ~RerunPending
    /\ RowCount(file) < MaxAppRows
    /\ \E f \in FormInputs(form.takenMax) :
        LET head == ScriptHead(cache, file, lenientDates)
            total == VacationTotal(f.workload)
            taken == NumberInputValue(f.entered, form.takenMax, total)
            row == NewRow(f, taken)
            a == append_row(row, file, lenientDates)
        IN  /\ page' = PageOf(head)
            /\ lastForm' = f
            /\ runKind' = "submit"
            /\ cache' = Cached(cache, file, lenientDates)
            /\ UNCHANGED lenientDates
            /\ IF head.state = "raised"
               THEN form' = NoForm /\ message' = "none" /\ UNCHANGED <<file, appended>>
               ELSE /\ form' = FormWith(total)
                    /\ IF NamesMissing(f.first, f.last)
                       THEN message' = "required" /\ UNCHANGED <<file, appended>>
                       ELSE IF a.outcome.state = "returned"
                       THEN /\ message' = "added"
                            /\ file' = a.file
                            /\ appended' = Append(appended, row)
                       ELSE message' = "failed" /\ UNCHANGED <<file, appended>>

-------------------------------------------------------------------------------
(* Specifications *)

NoSubmission == [submitted |-> FALSE]

InitVac ==
    /\ vacA \in WorkloadArgs
    /\ vacB \in WorkloadArgs
    /\ vacResA = NotCalled /\ vacResB = NotCalled
    /\ senAge = MinAge /\ senHire = NoHireDate /\ senRes = NotCalled
    /\ file = MissingFile /\ lenientDates = FALSE
    /\ lastCall = NoCall /\ prevCall = NoCall
    /\ pc = [p \in Procs |-> "start"]
    /\ procRow = [p \in Procs |-> BaseDict]
    /\ procDf = [p \in Procs |-> <<>>]
    /\ cache = NotCalled /\ page = [state |-> "none"] /\ form = NoForm
    /\ message = "none" /\ lastForm = NoSubmission /\ runKind = "none"
    /\ appended = <<>>

NextVac == ComputeVacation /\ UNCHANGED <<senVars, fileVars, storeVars, raceVars, appVars>>

SpecVac == InitVac /\ [][NextVac]_vars

InitSen ==
    /\ vacA = IntArg(0) /\ vacB = IntArg(0)
    /\ vacResA = NotCalled /\ vacResB = NotCalled
    /\ senAge \in MinAge..MaxAge
    /\ senHire \in HireArgs
    /\ senRes = NotCalled
    /\ file = MissingFile /\ lenientDates = FALSE
    /\ lastCall = NoCall /\ prevCall = NoCall
    /\ pc = [p \in Procs |-> "start"]
    /\ procRow = [p \in Procs |-> BaseDict]
    /\ procDf = [p \in Procs |-> <<>>]
    /\ cache = NotCalled /\ page = [state |-> "none"] /\ form = NoForm
    /\ message = "none" /\ lastForm = NoSubmission /\ runKind = "none"
    /\ appended = <<>>

NextSen == InferSeniority /\ UNCHANGED <<vacVars, fileVars, storeVars, raceVars, appVars>>

SpecSen == InitSen /\ [][NextSen]_vars

InitStore ==
    /\ vacA = IntArg(0) /\ vacB = IntArg(0)
    /\ vacResA = NotCalled /\ vacResB = NotCalled
    /\ senAge = MinAge /\ senHire = NoHireDate /\ senRes = NotCalled
    /\ file \in InitialFiles
    /\ lenientDates \in BOOLEAN
    /\ lastCall = NoCall /\ prevCall = NoCall
    /\ pc = [p \in Procs |-> "start"]
    /\ procRow = [p \in Procs |-> BaseDict]
    /\ procDf = [p \in Procs |-> <<>>]
    /\ cache = NotCalled /\ page = [state |-> "none"] /\ form = NoForm
    /\ message = "none" /\ lastForm = NoSubmission /\ runKind = "none"
    /\ appended = <<>>

NextStore ==
    \/ CallLoadData /\ UNCHANGED <<vacVars, senVars, raceVars, appVars>>
    \/ CallAppendRow /\ UNCHANGED <<vacVars, senVars, raceVars, appVars>>

SpecStore == InitStore /\ [][NextStore]_vars

InitRace ==
    /\ vacA = IntArg(0) /\ vacB = IntArg(0)
    /\ vacResA = NotCalled /\ vacResB = NotCalled
    /\ senAge = MinAge /\ senHire = NoHireDate /\ senRes = NotCalled
    /\ file \in InitialFiles
    /\ lenientDates \in BOOLEAN
    /\ lastCall = NoCall /\ prevCall = NoCall
    /\ pc = [p \in Procs |-> "start"]
    /\ procRow \in [Procs -> RaceDicts]
    /\ procDf = [p \in Procs |-> <<>>]
    /\ cache = NotCalled /\ page = [state |-> "none"] /\ form = NoForm
    /\ message = "none" /\ lastForm = NoSubmission /\ runKind = "none"
    /\ appended = <<>>

NextRace ==
    \E p \in Procs :
        \/ RaceLoad(p) /\ UNCHANGED <<vacVars, senVars, storeVars, appVars>>
        \/ RaceSave(p) /\ UNCHANGED <<vacVars, senVars, storeVars, appVars>>

SpecRace == InitRace /\ [][NextRace]_vars

InitApp ==
    /\ vacA = IntArg(0) /\ vacB = IntArg(0)
    /\ vacResA = NotCalled /\ vacResB = NotCalled
    /\ senAge = MinAge /\ senHire = NoHireDate /\ senRes = NotCalled
    /\ file \in InitialFiles
    /\ lenientDates \in BOOLEAN
    /\ lastCall = NoCall /\ prevCall = NoCall
    /\ pc = [p \in Procs |-> "start"]
    /\ procRow = [p \in Procs |-> BaseDict]
    /\ procDf = [p \in Procs |-> <<>>]
    /\ cache = NotCalled /\ page = [state |-> "none"] /\ form = NoForm
    /\ message = "none" /\ lastForm = NoSubmission /\ runKind = "none"
    /\ appended = <<>>

NextApp ==
    \/ Render /\ UNCHANGED <<vacVars, senVars, storeVars, raceVars>>
    \/ Submit /\ UNCHANGED <<vacVars, senVars, storeVars, raceVars>>
    \/ Rerun /\ UNCHANGED <<vacVars, senVars, storeVars, raceVars>>

SpecApp == InitApp /\ [][NextApp]_vars

-------------------------------------------------------------------------------
(* Properties of compute_vacation_total *)

FullTimePct == 100

Abs(x) == IF x < 0 THEN -x ELSE x

\* v is a whole number nearest to n / d (either one, at a tie).
IsNearest(v, n, d) == 2 * Abs(v * d - n) <= d

\* The three accepted forms of the percentage p.
FormsOf(p) == {StrArg(PercentText(p)), FloatArg(p), IntArg(p)}

VacDone == vacResA # NotCalled

AgreeOn(p) ==
    (vacA \in FormsOf(p) /\ vacB \in FormsOf(p)) =>
        /\ vacResA.state = "returned"
        /\ vacResA = vacResB
        /\ IsNearest(vacResA.val, MaxVacationDays * p, PercentDivisor)

\* C2 as claimed: for every whole-number percentage p in 0..100 the three forms
\* "p%", p/100 and p give the same result, which is 25 * p / 100 rounded.
C2_Original == VacDone => \A p \in 0..FullTimePct : AgreeOn(p)

\* C2 amended: the three forms agree, on 25 * p / 100 rounded, for every p in
\* 0..100 other than 1; the whole number 1 is read as the fraction 1.0 and
\* gives 25 days, where "1%" and 0.01 give 0.
C2_Amended ==
    VacDone =>
        /\ \A p \in (0..FullTimePct) \ {1} : AgreeOn(p)
        /\ vacA = IntArg(1) => vacResA = Returned(MaxVacationDays)
        /\ vacA \in {StrArg(PercentText(1)), FloatArg(1)} => vacResA = Returned(0)

C2_Witness ==
    /\ vacA = StrArg(<<"8", "0", "%">>)
    /\ vacB = IntArg(80)
    /\ vacResA = Returned(20)
    /\ vacResB = Returned(20)

\* A workload fraction: a number in [0, 1].
IsFraction(w) == w.kind \in {"int", "float"} /\ 0 <= w.val.num /\ w.val.num <= w.val.den

RatLe(a, b) == a.num * b.den <= b.num * a.den

\* C9: for workload fractions w1 <= w2 in [0, 1],
\* compute_vacation_total(w1) <= compute_vacation_total(w2).
C9_Monotone ==
    (VacDone /\ IsFraction(vacA) /\ IsFraction(vacB) /\ RatLe(vacA.val, vacB.val)) =>
        /\ vacResA.state = "returned"
        /\ vacResB.state = "returned"
        /\ vacResA.val <= vacResB.val

C9_Witness ==
    /\ vacA = FloatArg(60)
    /\ vacB = FloatArg(100)
    /\ vacResA = Returned(15)
    /\ vacResB = Returned(25)

-------------------------------------------------------------------------------
(* Properties of infer_seniority *)

SeniorityLevels == {"Junior", "Mid", "Senior", "Manager", "Director"}

SenDone == senRes # NotCalled

\* The tenure thresholds in whole days: 3, 6 and 12 years are 1095.75, 2191.5
\* and 4383 days, 8 years are 2922 days.
LadderByDays(age, days) ==
    CASE age < 28 /\ days <= 1095 -> "Junior"
      [] ~(age < 28 /\ days <= 1095) /\ age < 35 /\ days <= 2191 -> "Mid"
      [] ~(age < 35 /\ days <= 2191) /\ age < 45 /\ days <= 4382 -> "Senior"
      [] ~(age < 45 /\ days <= 4382) /\ age < 60 /\ days >= 2922 -> "Manager"
      [] OTHER -> "Director"

\* C3: infer_seniority returns one of the five levels, the one of the first
\* matching rule of the ladder, with tenure 0 when there is no hire date.
C3_Ladder ==
    (SenDone /\ senHire.kind \in {"none", "date"}) =>
        /\ senRes.state = "returned"
        /\ senRes.val \in SeniorityLevels
        /\ senRes.val = LadderByDays(senAge, IF senHire.kind = "none" THEN 0 ELSE senHire.daysAgo)

\* Age 50 with a tenure of two years matches none of rules 1-4: Director.
C3_Witness ==
    /\ senAge = 50
    /\ senHire = HireDateAgo(730)
    /\ senRes = Returned("Director")

-------------------------------------------------------------------------------
(* Properties of the record store *)

\* A row with its hire date as the day it names, whatever holds it.
OnDay(r) == [r EXCEPT !.hire = r.hire.day]

\* The record r as a row of a table.
RecordOf(d) ==
    [first |-> Text(d.first), last |-> Text(d.last), age |-> d.age,
     seniority |-> Text(d.seniority), workload |-> d.workload, vtotal |-> d.vtotal,
     vtaken |-> d.vtaken, hire |-> DateValue(d.hire.day)]

AppendThenLoad ==
    /\ lastCall.op = "load"
    /\ prevCall.op = "append"
    /\ prevCall.outcome.state = "returned"

\* C1 as claimed: append_row(r) followed by load_data() returns the stored
\* collection S, its rows unchanged and in their order, followed by r as the
\* last row (dates compared as the days they name).
C1_Original ==
    AppendThenLoad =>
        /\ lastCall.outcome.state = "returned"
        /\ Len(lastCall.outcome.val) = Len(prevCall.df) + 1
        /\ \A i \in 1..Len(prevCall.df) :
               OnDay(lastCall.outcome.val[i]) = OnDay(prevCall.df[i])
        /\ OnDay(lastCall.outcome.val[Len(prevCall.df) + 1]) = OnDay(RecordOf(prevCall.row))

\* C8: while the file is missing or unreadable every call fails, load_data as
\* much as append_row, and the file stays as it is: no call creates it.
C8_MissingFails ==
    [][file.state # "present" =>
          /\ file' = file
          /\ lastCall' # NoCall => lastCall'.outcome.state = "raised"]_vars

C8_Witness ==
    /\ file = MissingFile
    /\ lastCall.op = "append"
    /\ lastCall.outcome = Raised("FileNotFoundError")
    /\ prevCall.op = "load"
    /\ prevCall.outcome = Raised("FileNotFoundError")

-------------------------------------------------------------------------------
(* Properties of two concurrent append_row calls *)

BothReturned == \A p \in Procs : pc[p] = "returned"

\* The rows the call p writes: the rows it read, then its own.
WrittenBy(p) == Append(WriteRows(procDf[p]), WriteRow(RecordOf(procRow[p])))

\* C4: when both calls have returned, the file is what the last writer wrote,
\* the rows it read followed by its own row; the other call's row is in it
\* only if the last writer read the file after the other call wrote it, and
\* is lost if both read the file before either wrote.
C4_LastWriterWins ==
    BothReturned =>
        \E w \in Procs : \E o \in Procs \ {w} :
            /\ file.state = "present"
            /\ file.rows = WrittenBy(w)
            /\ \/ procDf[w] = procDf[o]
               \/ procDf[w] = ReadRows(WrittenBy(o), lenientDates)

\* Both calls returned and the file holds Bea's row but not Ann's.
C4_LostUpdate ==
    /\ BothReturned
    /\ procRow["A"].first = "Ann"
    /\ procRow["B"].first = "Bea"
    /\ Len(file.rows) = Len(procDf["A"]) + 1
    /\ \E i \in 1..Len(file.rows) : file.rows[i].first = "Bea"
    /\ \A i \in 1..Len(file.rows) : file.rows[i].first # "Ann"

-------------------------------------------------------------------------------
(* Properties of the add-employee form *)

\* C5: a submission with an empty first or last name ends with the validation
\* message and leaves the file as it is; the file changes only in a
\* submission with both names, which ends with the row added.
C5_Rejected ==
    [][/\ (message' # "none" /\ (lastForm'.first = "" \/ lastForm'.last = "")) =>
              (message' = "required" /\ file' = file /\ appended' = appended)
       /\ file' # file =>
              (message' = "added" /\ lastForm'.first # "" /\ lastForm'.last # "")]_vars

C5_Witness ==
    /\ message = "required"
    /\ lastForm.first = "Ann"
    /\ lastForm.last = ""
    /\ appended = <<>>
    /\ RowCount(file) = 1

\* The percentage a workload text names.
PctOf(w) == DigitsToNat(StripPercent(w))

\* The rows of the file that the form wrote: its last Len(appended) rows.
WrittenRows == {i \in 1..RowCount(file) : i > RowCount(file) - Len(appended)}

\* C6: every row the form wrote has Vacation Days Total = 25 * workload
\* rounded, for its own workload, and 0 <= Vacation Days Taken <= total.
C6_VacationRange ==
    \A i \in WrittenRows :
        LET c == file.rows[i]
        IN  /\ IsNearest(DigitsToNat(c.vtotal), MaxVacationDays * PctOf(c.workload), PercentDivisor)
            /\ 0 <= DigitsToNat(c.vtaken)
            /\ DigitsToNat(c.vtaken) <= DigitsToNat(c.vtotal)

\* The user entered 25 days taken in the form as first shown (for 100%),
\* chose 60% and submitted: the row has a total of 15 and 0 days taken.
C6_Witness ==
    /\ message = "added"
    /\ lastForm.workload = PercentText(60)
    /\ lastForm.entered = 25
    /\ file.rows[RowCount(file)].vtotal = IntToStr(15)
    /\ file.rows[RowCount(file)].vtaken = IntToStr(0)

\* C10 as claimed: in the run that follows a row being added, the table that
\* get_data() returns is the content of the file.
C10_Refreshed ==
    runKind = "rerun" =>
        /\ page.state = "shown"
        /\ page.df = load_data(file, lenientDates).val

===============================================================================
